---- MODULE Spec2Model ----
(***************************************************************************)
(* Zoom attendance MVP (src/main.py): the webhook ingestion handler        *)
(* zoom_webhook and the store it writes (sessions, users,                  *)
(* attendance_segments), as a state machine.                               *)
(*                                                                         *)
(* Every request runs on its own pooled connection inside one database     *)
(* transaction (PostgreSQL's default READ COMMITTED level, which asyncpg's *)
(* conn.transaction() uses when no isolation is given).  The awaited       *)
(* statements of different requests interleave.  A transaction's writes    *)
(* are pending until Commit and are discarded by Fail.  Instants are       *)
(* counted in ticks, TicksPerSec ticks to the second, so that sub-second   *)
(* differences exist.                                                      *)
(***************************************************************************)
EXTENDS Integers, FiniteSets, Sequences, TLC

\* ---------------------------------------------------------------- bounds
NumTxns == 2
MaxSegs == 2
MaxTime == 2
TicksPerSec == 2

Txns == 1..NumTxns
Times == 0..MaxTime
Sessions == {"s1", "s2"}
Users == {"u1"}
Kinds == {"join", "leave"}

\* SQL NULL / Python None; a present value v is Some(v).
NULL == <<>>
Some(v) == <<v>>
Val(x) == x[1]

VARIABLES
    env,        \* the process environment: API_KEY and ZOOM_WEBHOOK_SECRET
    pool,       \* TRUE when the connection pool is initialised (pool is not None)
    sessions,   \* committed rows of sessions(session_id)
    users,      \* committed rows of users(id)
    segments,   \* committed rows of attendance_segments
    nextId,     \* next value of the attendance_segments id sequence
    txn,        \* per request slot: the handler's position and locals
    openedReturned, \* number of responses {action: segment_opened} sent so far
    closedReturned, \* number of responses {action: segment_closed} sent so far
    lastAt,     \* instant of the latest event of a serial, time-ordered delivery
    web         \* the HTTP request being traced: what was sent and the response

vars == <<env, pool, sessions, users, segments, nextId, txn,
          openedReturned, closedReturned, lastAt, web>>

\* Neither API_KEY nor ZOOM_WEBHOOK_SECRET is set.
NoEnv == [API_KEY |-> NULL, ZOOM_WEBHOOK_SECRET |-> NULL]

\* A free request slot (no request in progress on it).
Idle ==
    [pc |-> "idle", kind |-> "none", sid |-> "-", uid |-> "-", ts |-> 0,
     insSession |-> FALSE, insUser |-> FALSE, newId |-> NULL,
     row |-> NULL, duration |-> NULL, action |-> "none"]

InFlight(t) == txn[t].pc # "idle"

\* No HTTP request is traced.
NoWeb == [body |-> NULL, response |-> "none", now |-> 0]

\* The response of the traced request, once the handler returns or raises.
Responded(r) == IF web.body = NULL THEN web ELSE [web EXCEPT !.response = r]

\* ------------------------------------------------------ pure computations

\* int(x) of Python for x = d / TicksPerSec: truncation toward zero.
TruncSeconds(d) ==
    IF d >= 0 THEN d \div TicksPerSec ELSE -((-d) \div TicksPerSec)

\* Variant: the seconds rounded up instead of truncated.
Duration_RoundedUp(ts, join_time) ==
    (ts - join_time + TicksPerSec - 1) \div TicksPerSec

\* Variant: a negative difference clamped to zero.
Duration_Clamped(ts, join_time) ==
    IF ts < join_time THEN 0 ELSE TruncSeconds(ts - join_time)

\* duration = int((ts - row["join_time"]).total_seconds())
Duration(ts, join_time) == TruncSeconds(ts - join_time)

\* WHERE session_id = $1 AND user_id = $2 AND leave_time IS NULL
OpenSegments(sid, uid) ==
    {s \in segments : s.session_id = sid /\ s.user_id = uid /\ s.leave_time = NULL}

\* Variant: the query without "AND leave_time IS NULL".
SelectCandidates_AnyState(sid, uid) ==
    {s \in segments :
        /\ s.session_id = sid
        /\ s.user_id = uid
        /\ \A o \in segments :
              (o.session_id = sid /\ o.user_id = uid) => o.join_time <= s.join_time}

\* ORDER BY join_time DESC LIMIT 1: the rows that may come first.  The query
\* names no second sort key, so among equal join_time any row may be returned.
SelectCandidates(sid, uid) ==
    {s \in OpenSegments(sid, uid) :
        \A o \in OpenSegments(sid, uid) : o.join_time <= s.join_time}

\* ---------------------------------------------------------------- Init

Init ==
    /\ env = NoEnv
    /\ pool = FALSE
    /\ sessions = {}
    /\ users = {}
    /\ segments = {}
    /\ nextId = 1
    /\ txn = [t \in Txns |-> Idle]
    /\ openedReturned = 0
    /\ closedReturned = 0
    /\ lastAt = -1
    /\ web = NoWeb

\* ------------------------------------------------------------- lifecycle

Startup ==
    /\ pool = FALSE
    /\ pool' = TRUE
    /\ UNCHANGED <<env, sessions, users, segments, nextId, txn,
                   openedReturned, closedReturned, lastAt, web>>

\* pool.close() waits until every connection has been released.
Shutdown ==
    /\ pool = TRUE
    /\ \A t \in Txns : ~InFlight(t)
    /\ pool' = FALSE
    /\ UNCHANGED <<env, sessions, users, segments, nextId, txn,
                   openedReturned, closedReturned, lastAt, web>>

\* ------------------------------------------------------------- ingestion

\* Joins that will still draw an id from the sequence.
PendingJoins ==
    {t \in Txns : InFlight(t) /\ txn[t].kind = "join" /\ txn[t].newId = NULL}

\* Variant: an insert that never waits for a concurrent insert of its key.
InsertBlocked_Never(t, sid, uid) == FALSE

\* INSERT ... ON CONFLICT DO NOTHING waits for an uncommitted insert of the
\* same key by another transaction to commit or roll back.
InsertBlocked(t, sid, uid) ==
    \E o \in Txns \ {t} :
        \/ txn[o].insSession /\ txn[o].sid = sid /\ sid \notin sessions
        \/ txn[o].insUser /\ txn[o].uid = uid /\ uid \notin users

\* The two upserts: a row is inserted (pending) only when none is committed.
EnsureEntities(r) ==
    [r EXCEPT !.insSession = (r.sid \notin sessions),
              !.insUser = (r.uid \notin users)]

\* A join/leave webhook, normalised to (kind, sid, uid, ts), with the pool
\* initialised: a connection and a transaction are taken and the session and
\* user rows are ensured.
Arrive(t, kind, sid, uid, ts) ==
    /\ pool = TRUE
    /\ ~InFlight(t)
    /\ kind = "join" => nextId + Cardinality(PendingJoins) <= MaxSegs
    /\ ~InsertBlocked(t, sid, uid)
    /\ txn' = [txn EXCEPT ![t] =
                 EnsureEntities([Idle EXCEPT !.pc = "ensured", !.kind = kind,
                                             !.sid = sid, !.uid = uid, !.ts = ts])]
    /\ UNCHANGED <<env, pool, sessions, users, segments, nextId,
                   openedReturned, closedReturned>>

Request(t, kind, sid, uid, ts) ==
    /\ Arrive(t, kind, sid, uid, ts)
    /\ UNCHANGED <<env, lastAt, web>>

\* Variant: the insert taken for every event type, not only for a Join.
InsertSegment_AnyKind(t) ==
    /\ txn[t].pc = "ensured"
    /\ txn' = [txn EXCEPT ![t].pc = "written",
                          ![t].newId = Some(nextId),
                          ![t].action = "segment_opened"]
    /\ nextId' = nextId + 1
    /\ UNCHANGED <<env, pool, sessions, users, segments,
                   openedReturned, closedReturned, lastAt, web>>

\* Variant: a Join that inserts only when its pair has no open segment.
InsertSegment_IfNoneOpen(t) ==
    /\ txn[t].pc = "ensured"
    /\ txn[t].kind = "join"
    /\ txn' = [txn EXCEPT ![t].pc = "written",
                          ![t].newId = IF OpenSegments(txn[t].sid, txn[t].uid) = {}
                                       THEN Some(nextId) ELSE NULL,
                          ![t].action = "segment_opened"]
    /\ nextId' = nextId + 1
    /\ UNCHANGED <<env, pool, sessions, users, segments,
                   openedReturned, closedReturned, lastAt, web>>

\* Join: the insert is unconditional.
InsertSegment(t) ==
    /\ txn[t].pc = "ensured"
    /\ txn[t].kind = "join"
    /\ txn' = [txn EXCEPT ![t].pc = "written",
                          ![t].newId = Some(nextId),
                          ![t].action = "segment_opened"]
    /\ nextId' = nextId + 1
    /\ UNCHANGED <<env, pool, sessions, users, segments,
                   openedReturned, closedReturned, lastAt, web>>

\* Leave: fetchrow of the open segment; "if not row" returns no_open_segment.
SelectOpen(t) ==
    /\ txn[t].pc = "ensured"
    /\ txn[t].kind = "leave"
    /\ \/ /\ SelectCandidates(txn[t].sid, txn[t].uid) = {}
          /\ txn' = [txn EXCEPT ![t].pc = "written",
                                ![t].action = "no_open_segment"]
       \/ \E s \in SelectCandidates(txn[t].sid, txn[t].uid) :
             txn' = [txn EXCEPT ![t].pc = "selected",
                                ![t].row = Some([id |-> s.id, join_time |-> s.join_time])]
    /\ UNCHANGED <<env, pool, sessions, users, segments, nextId,
                   openedReturned, closedReturned, lastAt, web>>

\* UPDATE ... WHERE id = $3 waits for the row lock of an uncommitted update.
UpdateBlocked(t) ==
    \E o \in Txns \ {t} :
        /\ txn[o].pc = "written"
        /\ txn[o].row # NULL
        /\ Val(txn[o].row).id = Val(txn[t].row).id

UpdateSegment(t) ==
    /\ txn[t].pc = "selected"
    /\ ~UpdateBlocked(t)
    /\ txn' = [txn EXCEPT ![t].pc = "written",
                          ![t].duration = Some(Duration(txn[t].ts, Val(txn[t].row).join_time)),
                          ![t].action = "segment_closed"]
    /\ UNCHANGED <<env, pool, sessions, users, segments, nextId,
                   openedReturned, closedReturned, lastAt, web>>

\* Variant: the update sets leave_time and leaves duration_sec unset.
Written_LeaveTimeOnly(t) ==
    IF txn[t].newId # NULL
    THEN segments \cup
           {[id |-> Val(txn[t].newId), session_id |-> txn[t].sid, user_id |-> txn[t].uid,
             join_time |-> txn[t].ts, leave_time |-> NULL, duration_sec |-> NULL]}
    ELSE IF txn[t].duration # NULL
    THEN {IF s.id = Val(txn[t].row).id
          THEN [s EXCEPT !.leave_time = Some(txn[t].ts)]
          ELSE s : s \in segments}
    ELSE segments

\* The rows of attendance_segments once t's pending writes are applied.
Written(t) ==
    IF txn[t].newId # NULL
    THEN segments \cup
           {[id |-> Val(txn[t].newId), session_id |-> txn[t].sid, user_id |-> txn[t].uid,
             join_time |-> txn[t].ts, leave_time |-> NULL, duration_sec |-> NULL]}
    ELSE IF txn[t].duration # NULL
    THEN {IF s.id = Val(txn[t].row).id
          THEN [s EXCEPT !.leave_time = Some(txn[t].ts), !.duration_sec = txn[t].duration]
          ELSE s : s \in segments}
    ELSE segments

\* Leaving "async with conn.transaction()" commits; the response
\* {ok, action[, duration_sec]} follows and the connection is released.
Commit(t) ==
    /\ txn[t].pc = "written"
    /\ sessions' = IF txn[t].insSession THEN sessions \cup {txn[t].sid} ELSE sessions
    /\ users' = IF txn[t].insUser THEN users \cup {txn[t].uid} ELSE users
    /\ segments' = Written(t)
    /\ openedReturned' = openedReturned + (IF txn[t].action = "segment_opened" THEN 1 ELSE 0)
    /\ closedReturned' = closedReturned + (IF txn[t].action = "segment_closed" THEN 1 ELSE 0)
    /\ txn' = [txn EXCEPT ![t] = Idle]
    /\ web' = Responded(txn[t].action)
    /\ UNCHANGED <<env, pool, nextId, lastAt>>

\* Variant: the session and user rows written outside the transaction, so
\* that they stay when the request fails.
Fail_KeepsEntities(t) ==
    /\ InFlight(t)
    /\ sessions' = IF txn[t].insSession THEN sessions \cup {txn[t].sid} ELSE sessions
    /\ users' = IF txn[t].insUser THEN users \cup {txn[t].uid} ELSE users
    /\ txn' = [txn EXCEPT ![t] = Idle]
    /\ web' = Responded("error")
    /\ UNCHANGED <<env, pool, segments, nextId,
                   openedReturned, closedReturned, lastAt>>

\* A database call raises (connection failure): the transaction rolls back,
\* the request ends with a server error and the connection is released.
Fail(t) ==
    /\ InFlight(t)
    /\ txn' = [txn EXCEPT ![t] = Idle]
    /\ web' = Responded("error")
    /\ UNCHANGED <<env, pool, sessions, users, segments, nextId,
                   openedReturned, closedReturned, lastAt>>

Next ==
    \/ Startup
    \/ Shutdown
    \/ \E t \in Txns, kind \in Kinds, sid \in Sessions, uid \in Users, ts \in Times :
          Request(t, kind, sid, uid, ts)
    \/ \E t \in Txns : InsertSegment(t)
    \/ \E t \in Txns : SelectOpen(t)
    \/ \E t \in Txns : UpdateSegment(t)
    \/ \E t \in Txns : Commit(t)
    \/ \E t \in Txns : Fail(t)

Spec == Init /\ [][Next]_vars

\* ------------------------------------------------------ serial delivery
\* The events of one fixed (session, user) delivered one after another (no
\* request starts while another is in progress) with strictly increasing
\* instants.

RequestSerial(kind, ts) ==
    /\ \A t \in Txns : ~InFlight(t)
    /\ ts > lastAt
    /\ Arrive(1, kind, "s1", "u1", ts)
    /\ lastAt' = ts
    /\ UNCHANGED web

NextSerial ==
    \/ Startup
    \/ Shutdown
    \/ \E kind \in Kinds, ts \in Times : RequestSerial(kind, ts)
    \/ \E t \in Txns : InsertSegment(t)
    \/ \E t \in Txns : SelectOpen(t)
    \/ \E t \in Txns : UpdateSegment(t)
    \/ \E t \in Txns : Commit(t)
    \/ \E t \in Txns : Fail(t)

SpecSerial == Init /\ [][NextSerial]_vars

\* ------------------------------------------------------ webhook payloads
\* A payload field is NULL when absent, else Some(string); the object's id is
\* NULL or Some(number).  A timestamp value is absent, a number (epoch
\* milliseconds) or a string: the empty string, or an ISO-8601 text made of a
\* wall-clock reading (in ticks) and a zone suffix.

\* Model instant 0 lies EpochBase seconds after the epoch (numbers are never 0).
EpochBase == 60

JOINED == "meeting.participant_joined"
LEFT == "meeting.participant_left"
VALIDATION == "endpoint.url_validation"

TsNone == [t |-> "none"]
TsEmpty == [t |-> "str", wall |-> 0, suffix |-> "empty"]
Iso(w, z) == [t |-> "str", wall |-> w, suffix |-> z]
Num(ms) == [t |-> "num", ms |-> ms]

\* The offset, in ticks, a zone designator stands for.
OffsetTicks(z) == IF z = "+00:01" THEN 60 * TicksPerSec ELSE 0

\* Python's "x or y" on a field: None and "" are skipped.
Pick(a, b) == IF a = NULL \/ a = Some("") THEN b ELSE a

\* Python's "x or y" on a timestamp value: None, "" and 0 are skipped.
PickTs(a, b) ==
    IF a = TsNone \/ a = TsEmpty \/ a = Num(0) THEN b ELSE a

\* str(obj.get("id"))
StrOfId(id) == IF id = NULL THEN "None" ELSE ToString(Val(id))

\* session_id = obj.get("uuid") or str(obj.get("id"))
NormSessionId(b) == Val(Pick(b.uuid, Some(StrOfId(b.id))))

\* user_id = email or user_id or id or "unknown"
NormUserId(b) == Val(Pick(b.email, Pick(b.user_id, Pick(b.pid, Some("unknown")))))

\* parse_iso_timestamp: "Z" reads as "+00:00"; an unparseable text or one
\* without a zone raises ValueError (NULL here); else the UTC instant.
parse_iso_timestamp(v) ==
    LET cleaned == IF v.suffix = "Z" THEN "+00:00" ELSE v.suffix
    IN  IF cleaned \in {"empty", "naive"}
        THEN NULL
        ELSE Some(v.wall - OffsetTicks(cleaned))

\* Variant: the number read as seconds, not milliseconds.
FromEpochMs_AsSeconds(ms) == ms * TicksPerSec - EpochBase * TicksPerSec

\* datetime.fromtimestamp(v / 1000, tz=utc), as a model instant in ticks.
FromEpochMs(ms) == (ms * TicksPerSec) \div 1000 - EpochBase * TicksPerSec

\* to_dt(v): None is the current time, a number is epoch milliseconds, a
\* string is parsed.
to_dt(v, now) ==
    IF v.t = "none" THEN Some(now)
    ELSE IF v.t = "num" THEN Some(FromEpochMs(v.ms))
    ELSE parse_iso_timestamp(v)

\* ts = to_dt(participant.get("join_time" | "leave_time") or body.get("event_ts"))
NormInstant(b, now) ==
    to_dt(PickTs(IF b.event = JOINED THEN b.join_time ELSE b.leave_time, b.event_ts), now)

NormKind(b) == IF b.event = JOINED THEN "join" ELSE "leave"

\* ---- the payloads delivered

\* The text and the number that denote instant i (ticks after instant 0).
IsoOf(i, z) == Iso(i + OffsetTicks(z), z)
EpochMsOf(i) == EpochBase * 1000 + (i * 1000) \div TicksPerSec
Zones == {"Z", "+00:00", "+00:01"}
NormTimes == Times
TsValues ==
    {TsNone, TsEmpty}
    \cup {IsoOf(i, z) : i \in NormTimes, z \in Zones}
    \cup {Iso(i, "naive") : i \in NormTimes}
    \cup {Num(EpochMsOf(i)) : i \in {j \in NormTimes : (j * 1000) % TicksPerSec = 0}}

Strs(v) == {NULL, Some(""), Some(v)}

Body(ev, shape, uuid, id, email, user_id, pid, jt, lt, ets) ==
    [event |-> ev, shape |-> shape, uuid |-> uuid, id |-> id, email |-> email,
     user_id |-> user_id, pid |-> pid, join_time |-> jt, leave_time |-> lt,
     event_ts |-> ets, token |-> NULL]

\* Every combination of absent, empty and present identifier fields.
IdentityBodies ==
    {Body(ev, "object", uuid, id, email, user_id, pid, jt, TsNone, ets) :
        ev \in {JOINED}, uuid \in Strs("s1"), id \in {NULL, Some(7)},
        email \in Strs("a@x"), user_id \in Strs("u1"), pid \in Strs("p1"),
        jt \in {TsNone, IsoOf(1, "Z")}, ets \in {TsNone, IsoOf(0, "Z")}}

\* Every representation of the timestamps, for one session and user.
TimeBodies ==
    {Body(ev, "object", Some("s1"), NULL, Some("a@x"), NULL, NULL, jt, lt, ets) :
        ev \in {JOINED, LEFT}, jt \in TsValues, lt \in TsValues,
        ets \in {TsNone, TsEmpty, IsoOf(0, "Z"), Num(EpochMsOf(0)), Iso(0, "naive")}}

\* No "payload" key at all, or "payload": null.
ShapeBodies ==
    {Body(ev, shape, NULL, NULL, NULL, NULL, NULL, TsNone, TsNone, ets) :
        ev \in {JOINED, LEFT}, shape \in {"absent", "null"},
        ets \in {TsNone, IsoOf(0, "Z")}}

\* Event types that are not participant join/leave, and the handshake.
OtherBodies ==
    {Body(ev, "object", Some("s1"), NULL, Some("a@x"), NULL, NULL, jt, TsNone, TsNone) :
        ev \in {"meeting.started", "none"}, jt \in {TsNone, IsoOf(0, "Z")}}
    \cup {[Body(VALIDATION, "object", NULL, NULL, NULL, NULL, NULL, TsNone, TsNone, TsNone)
             EXCEPT !.token = tok] : tok \in {NULL, Some("t")}}

Bodies == IdentityBodies \cup TimeBodies \cup ShapeBodies

\* ------------------------------------------------------ the webhook handler

\* The handler answers without reaching the store: the traced response.
Answer(b, now, r) ==
    /\ web' = [body |-> Some(b), response |-> r, now |-> now]
    /\ UNCHANGED <<env, pool, sessions, users, segments, nextId, txn,
                   openedReturned, closedReturned, lastAt>>

\* Variant: the pool checked first, before the event type is looked at.
EarlyOutcome_PoolFirst(b, now) ==
    IF pool = FALSE THEN "error"
    ELSE IF b.event = VALIDATION
    THEN IF b.token = NULL \/ env.ZOOM_WEBHOOK_SECRET = NULL THEN "error" ELSE "handshake"
    ELSE IF b.event \notin {JOINED, LEFT} THEN "ignored"
    ELSE IF b.shape = "null" \/ NormInstant(b, now) = NULL THEN "error"
    ELSE "proceed"

\* Variant: no event filter, every other event type falls into the else
\* branch of the join/leave test.
EarlyOutcome_NoFilter(b, now) ==
    IF b.event = VALIDATION
    THEN IF b.token = NULL \/ env.ZOOM_WEBHOOK_SECRET = NULL THEN "error" ELSE "handshake"
    ELSE IF b.shape = "null" \/ NormInstant(b, now) = NULL THEN "error"
    ELSE IF pool = FALSE THEN "error"
    ELSE "proceed"

\* zoom_webhook before the transaction, in the order of the code: the
\* validation handshake (KeyError without plainToken, 500 without the secret),
\* the event filter, the normalisation (which may raise), the pool check.
\* "proceed" means the transaction is entered.
EarlyOutcome(b, now) ==
    IF b.event = VALIDATION
    THEN IF b.token = NULL \/ env.ZOOM_WEBHOOK_SECRET = NULL THEN "error" ELSE "handshake"
    ELSE IF b.event \notin {JOINED, LEFT} THEN "ignored"
    ELSE IF b.shape = "null" \/ NormInstant(b, now) = NULL THEN "error"
    ELSE IF pool = FALSE THEN "error"
    ELSE "proceed"

\* zoom_webhook up to the transaction, for the payload b arriving on slot t at
\* wall-clock time now.
Webhook(t, b, now) ==
    /\ web.response # "pending"
    /\ IF EarlyOutcome(b, now) # "proceed"
       THEN Answer(b, now, EarlyOutcome(b, now))
       ELSE /\ Arrive(t, NormKind(b), NormSessionId(b), NormUserId(b),
                      Val(NormInstant(b, now)))
            /\ web' = [body |-> Some(b), response |-> "pending", now |-> now]
            /\ UNCHANGED lastAt

\* ---- normalisation: one webhook delivered on an initialised pool with no
\* database failure, to a store that is empty or holds the open segment that a
\* Join of ("s1", "a@x") at instant j has left.

OneOpen(j) ==
    [id |-> 1, session_id |-> "s1", user_id |-> "a@x", join_time |-> j,
     leave_time |-> NULL, duration_sec |-> NULL]

InitNorm ==
    /\ env = NoEnv
    /\ pool = TRUE
    /\ \/ /\ sessions = {}
          /\ users = {}
          /\ segments = {}
          /\ nextId = 1
          /\ openedReturned = 0
       \/ \E j \in Times :
             /\ sessions = {"s1"}
             /\ users = {"a@x"}
             /\ segments = {OneOpen(j)}
             /\ nextId = 2
             /\ openedReturned = 1
    /\ txn = [t \in Txns |-> Idle]
    /\ closedReturned = 0
    /\ lastAt = -1
    /\ web = NoWeb

WebhookNorm ==
    /\ web.body = NULL
    /\ \E b \in Bodies, now \in Times : Webhook(1, b, now)

NextNorm ==
    \/ WebhookNorm
    \/ \E t \in Txns : InsertSegment(t)
    \/ \E t \in Txns : SelectOpen(t)
    \/ \E t \in Txns : UpdateSegment(t)
    \/ \E t \in Txns : Commit(t)

SpecNorm == InitNorm /\ [][NextNorm]_vars

\* ------------------------------------------------------ the query endpoints

\* The length of a day in seconds (86400), scaled to the model's instants.
DaySecs == 1
Days == 0..1

\* date.fromisoformat(day): the day's index, or NULL when it raises ValueError.
DayTexts == {"D0", "D1", "invalid"}
fromisoformat(day) ==
    IF day = "D0" THEN Some(0) ELSE IF day = "D1" THEN Some(1) ELSE NULL

\* start = 00:00:00 of the day, end = start.replace(hour=23, minute=59, second=59)
DayStart(d) == d * DaySecs * TicksPerSec
DayEnd(d) == DayStart(d) + (DaySecs - 1) * TicksPerSec

\* Variant: the query without "AND leave_time IS NOT NULL".
DailyWindow_WithOpen(d) ==
    {s \in segments : s.join_time >= DayStart(d) /\ s.join_time <= DayEnd(d)}

\* WHERE join_time >= $1 AND join_time <= $2 AND leave_time IS NOT NULL
DailyWindow(d) ==
    {s \in segments :
        /\ s.join_time >= DayStart(d)
        /\ s.join_time <= DayEnd(d)
        /\ s.leave_time # NULL}

\* SUM(duration_sec), NULLs skipped; int(total or 0) of an all-NULL sum is 0.
RECURSIVE SumDuration(_)
SumDuration(S) ==
    IF S = {} THEN 0
    ELSE LET s == CHOOSE x \in S : TRUE
         IN  (IF s.duration_sec = NULL THEN 0 ELSE Val(s.duration_sec))
               + SumDuration(S \ {s})

Coalesce(x, d) == IF x = NULL THEN d ELSE Val(x)

\* One group of GROUP BY user_id: COUNT(*), SUM(duration_sec), MIN(join_time),
\* MAX(COALESCE(leave_time, NOW())).
DailyRow(u, S, now) ==
    [user_id |-> u,
     segments |-> Cardinality(S),
     total_seconds |-> SumDuration(S),
     first_join |-> CHOOSE j \in {s.join_time : s \in S} :
                       \A s \in S : j <= s.join_time,
     last_seen |-> CHOOSE l \in {Coalesce(s.leave_time, now) : s \in S} :
                      \A s \in S : l >= Coalesce(s.leave_time, now)]

DailyRows(d, now) ==
    {DailyRow(u, {s \in DailyWindow(d) : s.user_id = u}, now) :
        u \in {s.user_id : s \in DailyWindow(d)}}

\* ORDER BY total_seconds DESC: the lists the query may return (rows of equal
\* total_seconds in any order).
DailySummary(d, now) ==
    LET rows == DailyRows(d, now)
        n == Cardinality(rows)
    IN  {q \in [1..n -> rows] :
            /\ \A i, j \in 1..n : i # j => q[i] # q[j]
            /\ \A i, j \in 1..n : i < j => q[i].total_seconds >= q[j].total_seconds}

\* require_api_key returns (TRUE) or raises 401 Unauthorized (FALSE).
require_api_key(x_api_key) ==
    env.API_KEY = NULL \/ x_api_key = env.API_KEY

Headers == {NULL, Some("k"), Some("K")}

\* A GET request answered: the traced request and its response.
Reply(endpoint, x_api_key, arg, status, rows) ==
    /\ web.response # "pending"
    /\ web' = [body |-> Some([event |-> "GET", endpoint |-> endpoint,
                              key |-> x_api_key, arg |-> arg]),
               response |-> status, now |-> 0, rows |-> rows]
    /\ UNCHANGED <<env, pool, sessions, users, segments, nextId, txn,
                   openedReturned, closedReturned, lastAt>>

\* GET /sessions (the header is not a parameter of the handler).
list_sessions ==
    \E x \in Headers :
        Reply("/sessions", x, "-", IF pool = FALSE THEN "500" ELSE "200", <<>>)

\* GET /sessions/{session_id}
session_details ==
    \E x \in Headers, sid \in {"s1"} :
        Reply("/sessions/{session_id}", x, sid,
              IF pool = FALSE THEN "500" ELSE "200", <<>>)

\* GET /sessions/{session_id}/csv
session_details_csv ==
    \E x \in Headers, sid \in {"s1"} :
        Reply("/sessions/{session_id}/csv", x, sid,
              IF pool = FALSE THEN "500" ELSE "200", <<>>)

\* GET /health
health ==
    Reply("/health", NULL, "-", IF pool = FALSE THEN "500" ELSE "200", <<>>)

\* GET /daily/{day}/summary: the key, then the pool, then the date.
daily_summary ==
    \E x \in Headers, day \in DayTexts, now \in Times :
        IF ~require_api_key(x)
        THEN Reply("/daily/{day}/summary", x, day, "401", <<>>)
        ELSE IF pool = FALSE
        THEN Reply("/daily/{day}/summary", x, day, "500", <<>>)
        ELSE IF fromisoformat(day) = NULL
        THEN Reply("/daily/{day}/summary", x, day, "400", <<>>)
        ELSE \E rows \in DailySummary(Val(fromisoformat(day)), now) :
                Reply("/daily/{day}/summary", x, day, "200", rows)

\* GET /sessions/{session_id}/summary: the key, then the pool.
session_summary ==
    \E x \in Headers, sid \in {"s1"} :
        Reply("/sessions/{session_id}/summary", x, sid,
              IF ~require_api_key(x) THEN "401"
              ELSE IF pool = FALSE THEN "500" ELSE "200", <<>>)

\* ---- the service: webhooks and queries, one request at a time, from process
\* start, with API_KEY and ZOOM_WEBHOOK_SECRET set or not.

Emails == {"a@x"}

JoinBody(e, i) ==
    Body(JOINED, "object", Some("s1"), NULL, Some(e), NULL, NULL,
         IsoOf(i, "Z"), TsNone, TsNone)
LeftBody(e, i) ==
    Body(LEFT, "object", Some("s1"), NULL, Some(e), NULL, NULL,
         TsNone, IsoOf(i, "Z"), TsNone)

WebBodies ==
    {JoinBody(e, i) : e \in Emails, i \in Times}
    \cup {LeftBody(e, i) : e \in Emails, i \in Times}
    \cup OtherBodies

Envs == [API_KEY : {NULL, Some("k")}, ZOOM_WEBHOOK_SECRET : {NULL, Some("z")}]

InitWeb ==
    /\ env \in Envs
    /\ pool = FALSE
    /\ sessions = {}
    /\ users = {}
    /\ segments = {}
    /\ nextId = 1
    /\ txn = [t \in Txns |-> Idle]
    /\ openedReturned = 0
    /\ closedReturned = 0
    /\ lastAt = -1
    /\ web = NoWeb

WebhookWeb == \E b \in WebBodies : Webhook(1, b, 0)

NextWeb ==
    \/ Startup
    \/ Shutdown
    \/ WebhookWeb
    \/ list_sessions
    \/ session_details
    \/ session_details_csv
    \/ health
    \/ daily_summary
    \/ session_summary
    \/ \E t \in Txns : InsertSegment(t)
    \/ \E t \in Txns : SelectOpen(t)
    \/ \E t \in Txns : UpdateSegment(t)
    \/ \E t \in Txns : Commit(t)
    \/ \E t \in Txns : Fail(t)

SpecWeb == InitWeb /\ [][NextWeb]_vars

\* ------------------------------------------------------------ properties

OpenCount(sid, uid) == Cardinality(OpenSegments(sid, uid))
ClosedSegments == {s \in segments : s.leave_time # NULL}

\* The step in which request t gets its response {action: segment_opened}.
RespondsOpened(t) ==
    /\ txn[t].pc = "written"
    /\ txn'[t] = Idle
    /\ openedReturned' = openedReturned + 1

\* The step in which request t gets its response {action: segment_closed}.
RespondsClosed(t) ==
    /\ txn[t].pc = "written"
    /\ txn'[t] = Idle
    /\ closedReturned' = closedReturned + 1

\* C1 (as stated): for every (session_id, user_id) at most one segment has
\* leave_time NULL, in every reachable state of the store.
C1_AtMostOneOpen ==
    \A sid \in Sessions, uid \in Users : OpenCount(sid, uid) <= 1

\* C1 (amended): the number of open segments of a pair grows only in the step
\* that commits a Join of that pair, and then by exactly one; no Leave and no
\* other step raises it.  (So it exceeds one only after a Join was committed
\* while the pair already had an open segment.)
C1_OpenGrowsOnlyByJoin ==
    [][\A sid \in Sessions, uid \in Users :
          OpenCount(sid, uid)' > OpenCount(sid, uid) =>
             /\ OpenCount(sid, uid)' = OpenCount(sid, uid) + 1
             /\ \E t \in Txns :
                   /\ RespondsOpened(t)
                   /\ txn[t].kind = "join"
                   /\ txn[t].sid = sid
                   /\ txn[t].uid = uid]_vars

\* Two Joins of one pair were committed with no Leave closing the first.
C1_Witness ==
    \E sid \in Sessions, uid \in Users :
        /\ OpenCount(sid, uid) >= 2
        /\ openedReturned >= 2

\* C2: a Leave that returns segment_closed closes a segment that is still open
\* when it commits (of two Leaves racing for one open segment only one returns
\* segment_closed; the segment is closed once).
C2_ClosedOnce ==
    [][\A t \in Txns :
          RespondsClosed(t) =>
             \E s \in segments :
                /\ s.id = Val(txn[t].row).id
                /\ s.leave_time = NULL]_vars

\* C3: no other writer interleaves between a Leave's select of the open
\* segment and its update: while request t holds a selected row, that row
\* changes in the store only by t's own commit.
C3_SelectUpdateAtomic ==
    [][\A t \in Txns :
          txn[t].row # NULL =>
             \A s \in segments :
                (s.id = Val(txn[t].row).id /\ s \notin segments') => RespondsClosed(t)]_vars

\* C4: events of one pair delivered one after another with strictly
\* increasing instants: the number of closed segments equals the number of
\* segment_closed responses, and every closed segment's duration_sec is the
\* whole seconds between its join_time and its leave_time.
C4_SerialClosedCountAndDuration ==
    /\ Cardinality(ClosedSegments) = closedReturned
    /\ \A s \in ClosedSegments :
          /\ Val(s.leave_time) >= s.join_time
          /\ Val(s.duration_sec) = (Val(s.leave_time) - s.join_time) \div TicksPerSec

\* A Join and a later Leave were delivered and the segment is closed with a
\* duration of at least one whole second.
C4_Witness ==
    /\ closedReturned >= 1
    /\ \E s \in ClosedSegments : Val(s.duration_sec) >= 1

\* C5 (as stated): a Leave that finds no open segment returns no_open_segment
\* and leaves the whole store (sessions, users, segments) as it was.
C5_NoOpenNoMutation ==
    [][\A t \in Txns :
          (txn[t].action = "no_open_segment" /\ txn'[t] = Idle) =>
             /\ sessions' = sessions
             /\ users' = users
             /\ segments' = segments]_vars

\* C5 (amended): a Leave whose select finds no open segment of its pair takes
\* the outcome no_open_segment; when it ends, attendance_segments is as it
\* was, and sessions and users have changed at most by gaining the event's
\* own session_id and user_id.
C5_NoOpenNoSegmentMutation ==
    [][\A t \in Txns :
          /\ (/\ txn[t].pc = "ensured"
              /\ txn[t].kind = "leave"
              /\ OpenSegments(txn[t].sid, txn[t].uid) = {}
              /\ txn'[t].pc \notin {"ensured", "idle"})
             => txn'[t].action = "no_open_segment"
          /\ (txn[t].action = "no_open_segment" /\ txn'[t] = Idle) =>
                /\ segments' = segments
                /\ sessions \subseteq sessions'
                /\ sessions' \subseteq sessions \cup {txn[t].sid}
                /\ users \subseteq users'
                /\ users' \subseteq users \cup {txn[t].uid}]_vars

\* A Leave for a session nobody joined was committed: the session row exists
\* although no segment was ever inserted.
C5_Witness ==
    /\ sessions # {}
    /\ nextId = 1
    /\ segments = {}

\* C6: a Join always takes the outcome segment_opened with an insert pending,
\* whether or not its pair already has an open segment, and its commit adds
\* exactly one new open segment with join_time = event.at.
C6_JoinAlwaysInserts ==
    [][\A t \in Txns :
          /\ (txn[t].kind = "join" /\ txn[t].pc = "ensured" /\ txn'[t].pc = "written")
             => txn'[t].action = "segment_opened"
          /\ RespondsOpened(t)
             => /\ txn[t].kind = "join"
                /\ Cardinality(segments') = Cardinality(segments) + 1
                /\ \E n \in segments' \ segments :
                      /\ segments' = segments \cup {n}
                      /\ \A s \in segments : s.id # n.id
                      /\ n.session_id = txn[t].sid
                      /\ n.user_id = txn[t].uid
                      /\ n.join_time = txn[t].ts
                      /\ n.leave_time = NULL
                      /\ n.duration_sec = NULL]_vars

\* The identical Join was committed twice: two open segments of one pair with
\* the same join_time.
C6_Witness ==
    \E a \in segments, b \in segments :
        /\ a.id # b.id
        /\ a.session_id = b.session_id
        /\ a.user_id = b.user_id
        /\ a.join_time = b.join_time
        /\ a.leave_time = NULL
        /\ b.leave_time = NULL

\* C7: the open segment a Leave selects is, among the open segments of its
\* pair, the one with the latest join_time and, among those, the highest id.
C7_SelectsLatestThenHighestId ==
    [][\A t \in Txns :
          (txn[t].pc = "ensured" /\ txn'[t].pc = "selected") =>
             \A o \in OpenSegments(txn[t].sid, txn[t].uid) :
                \/ o.join_time < Val(txn'[t].row).join_time
                \/ /\ o.join_time = Val(txn'[t].row).join_time
                   /\ o.id <= Val(txn'[t].row).id]_vars

\* C8: a segment is never deleted, its session_id, user_id and join_time never
\* change, and once closed its leave_time and duration_sec never change.
C8_SegmentLifecycle ==
    [][\A s \in segments :
          \E n \in segments' :
             /\ n.id = s.id
             /\ n.session_id = s.session_id
             /\ n.user_id = s.user_id
             /\ n.join_time = s.join_time
             /\ s.leave_time # NULL => n = s]_vars

\* C9 (as stated): a Leave that closes a segment stores leave_time = event.at
\* and duration_sec = floor((event.at - join_time) in seconds) and returns
\* that duration_sec.
C9_DurationIsFloor ==
    [][\A t \in Txns :
          RespondsClosed(t) =>
             \E n \in segments' :
                /\ n.id = Val(txn[t].row).id
                /\ n.leave_time = Some(txn[t].ts)
                /\ n.duration_sec = Some((txn[t].ts - n.join_time) \div TicksPerSec)
                /\ txn[t].duration = n.duration_sec]_vars

\* C9 (amended): a Leave that closes a segment stores leave_time = event.at
\* and duration_sec = (event.at - join_time) in seconds truncated toward zero
\* (the floor when event.at >= join_time, the ceiling when event.at precedes
\* join_time), never clamped to zero, and returns that duration_sec.
C9_DurationIsTruncation ==
    [][\A t \in Txns :
          RespondsClosed(t) =>
             \E n \in segments' :
                /\ n.id = Val(txn[t].row).id
                /\ n.leave_time = Some(txn[t].ts)
                /\ LET d == txn[t].ts - n.join_time
                   IN  n.duration_sec =
                          Some(IF d >= 0 THEN d \div TicksPerSec
                                         ELSE -((-d) \div TicksPerSec))
                /\ txn[t].duration = n.duration_sec]_vars

\* A segment was closed by a Leave whose instant precedes its join_time by a
\* fraction of a second or more: truncation and floor differ, or the stored
\* duration is negative.
C9_Witness ==
    /\ \E s \in ClosedSegments :
          /\ Val(s.leave_time) < s.join_time
          /\ (s.join_time - Val(s.leave_time)) % TicksPerSec # 0
    /\ \E s \in ClosedSegments : Val(s.duration_sec) < 0

\* C10: every segment has duration_sec set if and only if leave_time is set.
C10_DurationIffLeave ==
    \A s \in segments : (s.duration_sec # NULL) <=> (s.leave_time # NULL)

\* A closed and an open segment are both in the store.
C10_Witness ==
    /\ \E s \in segments : s.leave_time # NULL /\ s.duration_sec # NULL
    /\ \E s \in segments : s.leave_time = NULL /\ s.duration_sec = NULL

\* ---- webhook normalisation

Traced == Val(web.body)
IsAttendance == web.body # NULL /\ Traced.event \in {JOINED, LEFT}
Proceeded ==
    /\ IsAttendance
    /\ web.response \in {"pending", "segment_opened", "segment_closed", "no_open_segment"}

\* C11: a participant-joined or participant-left webhook, with the store
\* available, is never answered with an error, whichever fields are absent,
\* empty or unparseable.
C11_AttendanceNeverErrors ==
    IsAttendance => web.response # "error"

Present(f) == f # NULL /\ f # Some("")
PresentTs(v) == v # TsNone /\ v # TsEmpty

\* The instant a timestamp value denotes: the one whose text (in some zone)
\* or whose epoch-milliseconds number the value is.
Denotes(v, i) ==
    \/ \E z \in Zones : v = IsoOf(i, z)
    \/ (i * 1000) % TicksPerSec = 0 /\ v = Num(EpochMsOf(i))

\* The timestamp field the rule selects: the participant's field matching the
\* event kind if non-empty, else the envelope's event_ts.
SelectedTs(b) ==
    LET own == IF b.event = JOINED THEN b.join_time ELSE b.leave_time
    IN  IF PresentTs(own) THEN own ELSE b.event_ts

\* The segment the traced request has written, if it has committed a write.
TracedSegments ==
    IF web.response = "segment_opened"
    THEN {s \in segments : \A o \in segments : o.id <= s.id}
    ELSE IF web.response = "segment_closed"
    THEN {s \in segments : s.leave_time # NULL}
    ELSE {}

\* A timestamp field that is absent, empty, or a well-formed text or number.
AbsentEmptyOrWellFormed(v) ==
    \/ ~PresentTs(v)
    \/ \E i \in NormTimes : Denotes(v, i)

\* C16: session_id is the object's uuid if non-empty, else the string form of
\* the object's id; user_id is the first non-empty of the participant's email,
\* user_id and id, else "unknown"; the instant is the one denoted by the
\* participant's join_time/leave_time (matching the kind) if non-empty, else by
\* the envelope's event_ts if non-empty, else the current time.  For every
\* combination of absent, empty and well-formed fields the request is
\* processed, and its locals and the segment it writes carry these values.
C16_FirstNonEmptyWins ==
    (/\ IsAttendance
     /\ Traced.shape = "object"
     /\ AbsentEmptyOrWellFormed(Traced.join_time)
     /\ AbsentEmptyOrWellFormed(Traced.leave_time)
     /\ AbsentEmptyOrWellFormed(Traced.event_ts)) =>
      LET b == Traced
          sid == IF Present(b.uuid) THEN Val(b.uuid)
                 ELSE IF b.id = NULL THEN "None" ELSE ToString(Val(b.id))
          uid == IF Present(b.email) THEN Val(b.email)
                 ELSE IF Present(b.user_id) THEN Val(b.user_id)
                 ELSE IF Present(b.pid) THEN Val(b.pid)
                 ELSE "unknown"
          atOk(x) == IF PresentTs(SelectedTs(b)) THEN Denotes(SelectedTs(b), x)
                     ELSE x = web.now
      IN  /\ Proceeded
          /\ web.response = "pending" =>
                /\ txn[1].kind = (IF b.event = JOINED THEN "join" ELSE "leave")
                /\ txn[1].sid = sid
                /\ txn[1].uid = uid
                /\ atOk(txn[1].ts)
          /\ \A s \in TracedSegments :
                /\ s.session_id = sid
                /\ s.user_id = uid
                /\ atOk(IF b.event = JOINED THEN s.join_time ELSE Val(s.leave_time))

C18_EntitiesUpserted ==
    [][/\ sessions \subseteq sessions'
       /\ users \subseteq users'
       /\ \A s \in segments' : s.session_id \in sessions' /\ s.user_id \in users'
       /\ \A t \in Txns :
             /\ txn'[t].insSession => txn'[t].sid \notin sessions'
             /\ txn'[t].insUser => txn'[t].uid \notin users'
       /\ \A t, o \in Txns :
             (t # o /\ txn'[t].insSession /\ txn'[o].insSession)
                => txn'[t].sid # txn'[o].sid]_vars

\* An event for a session and user that both exist is in progress with no
\* session or user insert pending, while segments exist.
C18_Witness ==
    /\ segments # {}
    /\ \E t \in Txns :
          /\ InFlight(t)
          /\ txn[t].sid \in sessions /\ ~txn[t].insSession
          /\ txn[t].uid \in users /\ ~txn[t].insUser

\* C19: one ingested event changes at most one segment, of its own pair.  A
\* Join adds exactly one segment and modifies none; a Leave answered
\* segment_closed modifies exactly one segment, lowers the open segments of
\* its pair by exactly one and adds none; every other segment is unchanged and
\* the number of segments never decreases.
C19_PerEventFrame ==
    [][/\ Cardinality(segments') >= Cardinality(segments)
       /\ (\A t \in Txns : ~RespondsOpened(t) /\ ~RespondsClosed(t))
             => segments' = segments
       /\ \A t \in Txns :
             LET sid == txn[t].sid
                 uid == txn[t].uid
                 added == segments' \ segments
                 gone == segments \ segments'
             IN  /\ RespondsOpened(t) =>
                       /\ gone = {}
                       /\ Cardinality(added) = 1
                       /\ \A s \in added : s.session_id = sid /\ s.user_id = uid
                 /\ RespondsClosed(t) =>
                       /\ Cardinality(gone) = 1
                       /\ Cardinality(added) = 1
                       /\ \A s \in gone : s.session_id = sid /\ s.user_id = uid
                       /\ \A s \in gone : \E n \in added : n.id = s.id
                       /\ Cardinality({s \in segments' : /\ s.session_id = sid
                                                          /\ s.user_id = uid
                                                          /\ s.leave_time = NULL}) =
                             Cardinality(OpenSegments(sid, uid)) - 1]_vars

\* ---- the service as a whole

Store == <<sessions, users, segments>>

\* The step in which the handler of a new webhook delivery runs up to its
\* response or up to its transaction.
WebhookHandled ==
    /\ web.response # "pending"
    /\ web' # web
    /\ web'.body # NULL
    /\ Val(web'.body).event # "GET"

\* The step in which a GET request is answered.
QueryAnswered ==
    /\ web' # web
    /\ web'.body # NULL
    /\ Val(web'.body).event = "GET"

IsQuery == web.body # NULL /\ Traced.event = "GET"

\* C12: a webhook whose event type is neither participant-joined nor
\* participant-left nor the validation handshake is answered
\* {ok: true, ignored: true} and leaves sessions, users and segments (and the
\* id sequence, and every request in progress) unchanged, whatever the
\* payload carries.
C12_OtherEventsIgnored ==
    [][(WebhookHandled /\ Val(web'.body).event \notin {JOINED, LEFT, VALIDATION}) =>
          /\ web'.response = "ignored"
          /\ Store' = Store
          /\ nextId' = nextId
          /\ txn' = txn]_vars

\* An event of another type, carrying a participant and a join_time, has been
\* ignored while the pool is up and segments exist.
C12_Witness ==
    /\ web.response = "ignored"
    /\ Traced.event = "meeting.started"
    /\ Traced.join_time # TsNone
    /\ pool = TRUE
    /\ segments # {}

\* C13: sessions, users and segments change only in the step that commits the
\* transaction of a Join or Leave webhook, and then by all of that event's
\* writes; a query endpoint changes none of them, and an ingestion request
\* that fails in its transaction leaves none of its writes.
C13_OnlyIngestionWrites ==
    [][/\ Store' # Store =>
             /\ IsAttendance
             /\ web.response = "pending"
             /\ web'.response \in {"segment_opened", "segment_closed", "no_open_segment"}
             /\ \E t \in Txns : txn[t].pc = "written" /\ txn'[t] = Idle
       /\ QueryAnswered => Store' = Store
       /\ (web.response = "pending" /\ web'.response = "error") => Store' = Store
       /\ \A t \in Txns :
             (txn[t].pc = "written" /\ txn'[t] = Idle /\ web'.response # "error") =>
                /\ txn[t].sid \in sessions'
                /\ txn[t].uid \in users'
                /\ txn[t].action = "segment_opened" =>
                      \E s \in segments' \ segments :
                          /\ s.id = Val(txn[t].newId)
                          /\ s.session_id = txn[t].sid /\ s.user_id = txn[t].uid
                /\ txn[t].action = "segment_closed" =>
                      \E s \in segments' :
                          /\ s.id = Val(txn[t].row).id
                          /\ s.leave_time = Some(txn[t].ts)
                          /\ s.duration_sec = txn[t].duration]_vars

\* A Join that had inserted its segment (the id sequence has advanced) has
\* failed, and no session, user or segment row is in the store.
C13_Witness ==
    /\ IsAttendance
    /\ web.response = "error"
    /\ nextId > 1
    /\ sessions = {} /\ users = {} /\ segments = {}

\* The closed segments of user u whose join_time lies in day d.
ClosedInDay(u, d) ==
    {s \in segments :
        /\ s.user_id = u
        /\ s.leave_time # NULL
        /\ s.join_time >= DayStart(d) /\ s.join_time <= DayEnd(d)}

\* C14: the daily summary of day D counts only closed segments: a user has a
\* row exactly when one of its segments joined in D is closed, and the row's
\* segment count, total_seconds, first_join and last_seen are those of its
\* closed segments joined in D; an open segment adds to none of them.
C14_DailySummaryClosedOnly ==
    (IsQuery /\ Traced.endpoint = "/daily/{day}/summary" /\ web.response = "200") =>
      LET d == Val(fromisoformat(Traced.arg))
          n == Len(web.rows)
      IN  /\ \A i, j \in 1..n : i # j => web.rows[i].user_id # web.rows[j].user_id
          /\ \A u \in {s.user_id : s \in segments} :
                (ClosedInDay(u, d) # {}) <=> (\E i \in 1..n : web.rows[i].user_id = u)
          /\ \A i \in 1..n :
                LET r == web.rows[i]
                    C == ClosedInDay(r.user_id, d)
                IN  /\ r.segments = Cardinality(C)
                    /\ r.total_seconds = SumDuration(C)
                    /\ \E s \in C : r.first_join = s.join_time
                    /\ \A s \in C : r.first_join <= s.join_time
                    /\ \E s \in C : r.last_seen = Val(s.leave_time)
                    /\ \A s \in C : r.last_seen >= Val(s.leave_time)

\* The summary of a day was returned with one row counting one segment, while
\* the same user also has an open segment joined on that day.
C14_Witness ==
    /\ IsQuery /\ Traced.endpoint = "/daily/{day}/summary" /\ web.response = "200"
    /\ Len(web.rows) = 1
    /\ web.rows[1].segments = 1
    /\ \E s \in segments :
          /\ s.leave_time = NULL
          /\ s.user_id = web.rows[1].user_id
          /\ s.join_time >= DayStart(Val(fromisoformat(Traced.arg)))
          /\ s.join_time <= DayEnd(Val(fromisoformat(Traced.arg)))

GatedEndpoints ==
    {"/sessions", "/sessions/{session_id}", "/sessions/{session_id}/csv",
     "/sessions/{session_id}/summary", "/daily/{day}/summary"}

\* C15: with an API key configured, every query endpoint (session list,
\* per-session summary in JSON and CSV, per-day summary) answers Unauthorized
\* exactly when the key header is absent or differs from the configured key;
\* with no key configured none answers Unauthorized.
C15_EveryQueryGated ==
    (IsQuery /\ Traced.endpoint \in GatedEndpoints) =>
       ((web.response = "401") <=>
           (env.API_KEY # NULL /\ Traced.key # env.API_KEY))

WellFormed(b) == b.shape = "object" /\ PresentTs(SelectedTs(b)) /\
                 \E i \in Times : Denotes(SelectedTs(b), i)

\* C20: while the pool is not initialised, a Join or Leave webhook is answered
\* with a server error and changes no persisted state, while the validation
\* handshake (token sent, secret set) and events of other types are answered
\* as usual; with the pool initialised the same Join or Leave webhook enters
\* its transaction.
C20_StoreUnavailable ==
    [][WebhookHandled =>
         LET b == Val(web'.body)
         IN  /\ (b.event \in {JOINED, LEFT} /\ pool = FALSE) =>
                   /\ web'.response = "error"
                   /\ Store' = Store /\ nextId' = nextId /\ txn' = txn
             /\ (b.event = VALIDATION /\ b.token # NULL
                   /\ env.ZOOM_WEBHOOK_SECRET # NULL /\ pool = FALSE) =>
                   web'.response = "handshake"
             /\ (b.event \notin {JOINED, LEFT, VALIDATION} /\ pool = FALSE) =>
                   web'.response = "ignored"
             /\ (b.event \in {JOINED, LEFT} /\ pool = TRUE /\ WellFormed(b)) =>
                   /\ web'.response = "pending"
                   /\ \E t \in Txns : ~InFlight(t) /\ txn'[t].pc = "ensured"]_vars

\* After a shutdown that followed a processed Join, a well-formed Join or
\* Leave webhook has been answered with a server error.
C20_Witness ==
    /\ pool = FALSE
    /\ IsAttendance /\ WellFormed(Traced)
    /\ web.response = "error"
    /\ segments # {}

====
